---- MODULE Spec2Model ----
(***************************************************************************)
(* hooker: webhook-triggered deployment daemon (src/main.go, the version   *)
(* with the process-wide mutex, lines 199-445).                            *)
(*                                                                         *)
(* Two parts:                                                              *)
(*  - the payload normalizer (unmarshalPayload, Ref) as operators over an  *)
(*    abstract JSON document, exercised by SpecPayload;                    *)
(*  - handleWebhook as a state machine, one action per statement that      *)
(*    calls the filesystem, the mutex or the git library, exercised by     *)
(*    Spec (clean repositories), SpecRepo (any starting repository),       *)
(*    SpecFair (Spec with fair scheduling) and SpecIdem (Spec with the     *)
(*    outcome of successive synchronizations of one repository recorded).  *)
(***************************************************************************)
EXTENDS Integers, Sequences, FiniteSets, TLC

(* ------------------------------ bounds --------------------------------- *)

\* number of concurrently handled requests
NumReq == 2

\* commits are 1..MaxCommit on one line of history (c is an ancestor of c+1)
MaxCommit == 2

\* longest refChanges list of a payload
MaxRecords == 2

(* ------------------------- program constants --------------------------- *)

Master == "refs/heads/master"

NotMaster == "not master"

TrackingRef == "refs/remotes/origin/master"

DevBranch == "refs/heads/dev"

HeadName == "HEAD"

StatusOK == 200

StatusInternalServerError == 500

StatusNotFound == 404

StatusForbidden == 403

(* ------------------------- abstract JSON input ------------------------- *)

\* state of a string field of a JSON object: a string, not there, or there
\* with a value that is no string
AbsentField == "<absent>"

WrongType == "<wrong type>"

RefStrings == {Master, "refs/heads/feature-x", "master"}

FieldStates == RefStrings \cup {AbsentField, WrongType}

BoundedSeq(S, n) == UNION {[1..k -> S] : k \in 0..n}

\* the refChanges member: absent, null, not an array, or an array whose
\* items are given by the state of their refId member (WrongType also
\* stands for an item that is no object)
RefChangesStates ==
    [kind : {"absent", "null", "badtype"}, items : {<<>>}]
    \cup [kind : {"list"}, items : BoundedSeq(FieldStates, MaxRecords)]

NoRefChanges == [kind |-> "absent", items |-> <<>>]

\* request bodies: an unreadable stream, bytes that are not JSON, the JSON
\* values null / scalar / array, and JSON objects (unknown members are
\* ignored by the decoder and are not represented)
Payloads ==
    [kind : {"ioerr", "syntax", "null", "scalar", "array"},
     refChanges : {NoRefChanges}, ref : {AbsentField}]
    \cup [kind : {"object"}, refChanges : RefChangesStates, ref : FieldStates]

Object(rc, ref) == [kind |-> "object", refChanges |-> rc, ref |-> ref]

List(items) == [kind |-> "list", items |-> items]

(* ----------------------- payload normalizer ---------------------------- *)

NoErr == "nil"

\* the nil interface value
NilValue == [type |-> "nil", RefChanges |-> <<>>, ref |-> ""]

BitbucketServerWebhook(changes) ==
    [type |-> "BitbucketServerWebhook", RefChanges |-> changes, ref |-> ""]

GitLabWebhook(ref) ==
    [type |-> "GitLabWebhook", RefChanges |-> <<>>, ref |-> ref]

\* variant of services with the two decoders in the other order
services_GitLabFirst == <<"GitLabWebhook", "BitbucketServerWebhook">>

\* decoder priority order
services == <<"BitbucketServerWebhook", "GitLabWebhook">>

\* value of the RefID field after decoding one item
DecodeRefID(s) == IF s \in {AbsentField, WrongType} THEN "" ELSE s

\* json.Unmarshal(data, &s) where the interface s holds a pointer to a zero
\* struct of type T.  Result: the error and the value s holds afterwards.
\*  - bytes that are not JSON: SyntaxError
\*  - null: no error, and the interface itself is set to nil
\*  - a scalar or an array: UnmarshalTypeError (a struct wants an object)
\*  - an object: members are matched to exported fields; unknown members
\*    are skipped; a member of the wrong JSON type is an UnmarshalTypeError
jsonUnmarshal(data, T) ==
    CASE data.kind = "syntax" -> [err |-> "SyntaxError", val |-> NilValue]
      [] data.kind = "null" -> [err |-> NoErr, val |-> NilValue]
      [] data.kind \in {"scalar", "array"} ->
            [err |-> "UnmarshalTypeError", val |-> NilValue]
      [] OTHER ->
            IF T = "BitbucketServerWebhook"
            THEN LET rc == data.refChanges
                     bad == \/ rc.kind = "badtype"
                            \/ \E i \in 1..Len(rc.items) : rc.items[i] = WrongType
                     changes == [i \in 1..Len(rc.items) |-> DecodeRefID(rc.items[i])]
                 IN  [err |-> IF bad THEN "UnmarshalTypeError" ELSE NoErr,
                      val |-> BitbucketServerWebhook(changes)]
            \* GitLabWebhook has the single field `ref`, which is unexported:
            \* the decoder never assigns it, whatever the member holds
            ELSE [err |-> NoErr, val |-> GitLabWebhook("")]

\* variant of RefLoop that looks at the first change record only
RefLoop_FirstOnly(changes, i) ==
    IF i > Len(changes) THEN NotMaster
    ELSE IF changes[i] = Master THEN Master
    ELSE NotMaster

RECURSIVE RefLoop(_, _)
RefLoop(changes, i) ==
    IF i > Len(changes) THEN NotMaster
    ELSE IF changes[i] = Master THEN Master
    ELSE RefLoop(changes, i + 1)

\* the Ref() method of the two webhook types
Ref(v) ==
    IF v.type = "BitbucketServerWebhook" THEN RefLoop(v.RefChanges, 1)
    ELSE v.ref

RECURSIVE tryServices(_, _)
tryServices(data, i) ==
    IF i > Len(services)
    \* `return nil, err`: err is the variable assigned by ReadAll, nil here
    THEN [ref |-> NilValue, err |-> NoErr, panic |-> FALSE]
    ELSE LET d == jsonUnmarshal(data, services[i])
         IN  IF d.err = NoErr
             \* s.(Ref) panics when s is the nil interface
             THEN [ref |-> d.val, err |-> NoErr, panic |-> d.val = NilValue]
             ELSE tryServices(data, i + 1)

unmarshalPayload(data) ==
    IF data.kind = "ioerr"
    THEN [ref |-> NilValue, err |-> "read error", panic |-> FALSE]
    ELSE tryServices(data, 1)

\* variant of Admit without the master filter of lines 292-295
Admit_NoMasterCheck(ref, err) ==
    IF err # NoErr THEN "invalid payload"
    ELSE IF ref = NilValue THEN "panic"
    ELSE "update"

\* lines 287-295 of handleWebhook: what the handler does with the result of
\* unmarshalPayload.  "panic" is the nil dereference of ref.Ref().
Admit(ref, err) ==
    IF err # NoErr THEN "invalid payload"
    ELSE IF ref = NilValue THEN "panic"
    ELSE IF Ref(ref) # Master THEN "ignored"
    ELSE "update"

(* --------------------------- the environment --------------------------- *)

Reqs == 1..NumReq

Commits == 1..MaxCommit

\* directories under HookPath that hold a git repository
Repos == {"demo", "other"}

\* request paths: the two repositories, a name that does not exist, a
\* plain file, a directory without .git, a directory whose .git is a file
Paths == Repos \cup {"missing", "afile", "norepo", "gitfile"}

\* os.Stat(filepath.Join(c.HookPath, r.URL.Path))
StatPath(p) ==
    CASE p = "missing" -> "ENOENT"
      [] p = "afile" -> "file"
      [] OTHER -> "dir"

\* os.Stat(filepath.Join(c.HookPath, r.URL.Path, ".git"))
StatGit(p) ==
    CASE p \in Repos -> "dir"
      [] p = "gitfile" -> "file"
      [] OTHER -> "ENOENT"

\* bodies delivered to the running handler: one representative of each way
\* unmarshalPayload and the master filter can go
ReqBodies ==
    { Object(List(<<Master>>), AbsentField),
      Object(List(<<"refs/heads/feature-x">>), AbsentField),
      Object(NoRefChanges, Master),
      Object([kind |-> "badtype", items |-> <<>>], Master),
      [kind |-> "array", refChanges |-> NoRefChanges, ref |-> AbsentField],
      [kind |-> "null", refChanges |-> NoRefChanges, ref |-> AbsentField],
      [kind |-> "ioerr", refChanges |-> NoRefChanges, ref |-> AbsentField] }

(* ------------------------------- state --------------------------------- *)

VARIABLES
    payload,      \* SpecPayload: the body under test
    decoded,      \* SpecPayload: result of unmarshalPayload, once applied
    verdict,      \* SpecPayload: what handleWebhook does with that result
    pc,           \* per request: the statement the handler is at
    path,         \* per request: r.URL.Path
    ref,          \* per request: local `ref`
    err,          \* per request: local `err` after unmarshalPayload
    remoteTarget, \* per request: local `remoteTarget`
    head,         \* per request: local `head` (a loaded reference)
    localBranch,  \* per request: local `localBranch` (a loaded reference)
    deferred,     \* per request: TRUE once `defer mutex.Unlock()` has run
    responses,    \* per request: the (status, body) pairs written to w
    mutex,        \* the process-wide sync.Mutex: TRUE when locked
    refs,         \* per repository: target of each direct reference
    HEAD,         \* per repository: HEAD, symbolic or detached
    worktree,     \* per repository: commit whose tree the working tree holds
    repoState,    \* per repository: "none" or "merge" (MERGE_HEAD present)
    lastSync      \* per repository: what the last 200 "ok" left behind

reqVars == <<pc, path, ref, err, remoteTarget, head, localBranch, deferred,
            responses>>

repoVars == <<refs, HEAD, worktree, repoState>>

payloadVars == <<payload, decoded, verdict>>

vars == <<payload, decoded, verdict, pc, path, ref, err, remoteTarget, head,
          localBranch, deferred, responses, mutex, refs, HEAD, worktree,
          repoState, lastSync>>

NoPath == ""

NoCommit == 0

\* a reference object as loaded by LookupReference / Head: its name and the
\* target it had when it was read
NoReference == [name |-> "", target |-> NoCommit]

Reference(name, target) == [name |-> name, target |-> target]

RefNames == {Master, DevBranch, TrackingRef}

Symbolic(name) == [kind |-> "symbolic", name |-> name, oid |-> NoCommit]

Detached(c) == [kind |-> "direct", name |-> HeadName, oid |-> c]

\* the commit HEAD of repository p resolves to
HeadCommit(p) ==
    IF HEAD[p].kind = "symbolic" THEN refs[p][HEAD[p].name] ELSE HEAD[p].oid

Response(status, body) == [status |-> status, body |-> body]

\* lastSync[p] of a repository whose synchronizations are not followed
NotObserved == [seen |-> "off", master |-> NoCommit, head |-> NoCommit]

\* lastSync[p] when the last synchronization of p did not end in 200 "ok",
\* or origin's master has moved since
NoSync == [seen |-> "none", master |-> NoCommit, head |-> NoCommit]

\* a synchronization of p failed, or a fetch brought a new commit
Forget(p) ==
    IF p \in Repos /\ lastSync[p].seen # "off"
    THEN [lastSync EXCEPT ![p] = NoSync]
    ELSE lastSync

\* a synchronization of p ends in 200 "ok": the commits master and HEAD
\* resolve to at that moment
Record(p) ==
    IF lastSync[p].seen # "off"
    THEN [lastSync EXCEPT ![p] = [seen |-> "ok", master |-> refs[p][Master],
                                  head |-> HeadCommit(p)]]
    ELSE lastSync

NoPayload == [kind |-> "none", refChanges |-> NoRefChanges, ref |-> AbsentField]

NoResult == [ref |-> NilValue, err |-> NoErr, panic |-> FALSE]

InitRequests ==
    /\ pc = [r \in Reqs |-> "start"]
    /\ path = [r \in Reqs |-> NoPath]
    /\ ref = [r \in Reqs |-> NilValue]
    /\ err = [r \in Reqs |-> NoErr]
    /\ remoteTarget = [r \in Reqs |-> NoCommit]
    /\ head = [r \in Reqs |-> NoReference]
    /\ localBranch = [r \in Reqs |-> NoReference]
    /\ deferred = [r \in Reqs |-> FALSE]
    /\ responses = [r \in Reqs |-> <<>>]
    /\ mutex = FALSE

InitNoPayload ==
    /\ payload = NoPayload
    /\ decoded = NoResult
    /\ verdict = "none"

\* every repository freshly cloned at commit 1, master checked out
Init ==
    /\ InitNoPayload
    /\ InitRequests
    /\ refs = [p \in Repos |-> [n \in RefNames |-> 1]]
    /\ HEAD = [p \in Repos |-> Symbolic(Master)]
    /\ worktree = [p \in Repos |-> 1]
    /\ repoState = [p \in Repos |-> "none"]
    /\ lastSync = [p \in Repos |-> NotObserved]

(* --------------------------- handleWebhook ----------------------------- *)

Goto(r, label) == pc' = [pc EXCEPT ![r] = label]

\* http.Error(w, body, status) / w.WriteHeader(status); w.Write(body)
Write(r, status, body) ==
    responses' = [responses EXCEPT ![r] = Append(@, Response(status, body))]

\* the handler's locals die when it returns
ClearLocals(r) ==
    /\ path' = [path EXCEPT ![r] = NoPath]
    /\ ref' = [ref EXCEPT ![r] = NilValue]
    /\ err' = [err EXCEPT ![r] = NoErr]
    /\ remoteTarget' = [remoteTarget EXCEPT ![r] = NoCommit]
    /\ head' = [head EXCEPT ![r] = NoReference]
    /\ localBranch' = [localBranch EXCEPT ![r] = NoReference]
    /\ deferred' = [deferred EXCEPT ![r] = FALSE]

\* the closure http500 (lines 282-285) followed by `return`
http500(r) ==
    /\ Write(r, StatusInternalServerError, "500")
    /\ Goto(r, "return")
    /\ lastSync' = Forget(path[r])
    /\ UNCHANGED <<path, ref, err, remoteTarget, head, localBranch, deferred,
                   mutex, repoVars, payloadVars>>

\* a library call that changes nothing and either succeeds or fails
Call(r, label, next) ==
    /\ pc[r] = label
    /\ \/ /\ Goto(r, next)
          /\ UNCHANGED <<path, ref, err, remoteTarget, head, localBranch,
                         deferred, responses, mutex, repoVars, payloadVars, lastSync>>
       \/ http500(r)

\* line 280: ref, err := unmarshalPayload(r.Body).  A panic inside it
\* unwinds the handler; net/http recovers it and drops the connection
\* without a response.
Receive(r) ==
    /\ pc[r] = "start"
    /\ \E body \in ReqBodies :
          LET u == unmarshalPayload(body)
          IN  IF u.panic
              THEN Goto(r, "panicked") /\ UNCHANGED <<ref, err>>
              ELSE /\ Goto(r, "filter")
                   /\ ref' = [ref EXCEPT ![r] = u.ref]
                   /\ err' = [err EXCEPT ![r] = u.err]
    /\ UNCHANGED <<path, remoteTarget, head, localBranch, deferred, responses,
                   mutex, repoVars, payloadVars, lastSync>>

\* variant of Filter that validates the path before the request goes to the
\* lock, and answers 404 / 403 without it
Filter_GuardFirst(r) ==
    /\ pc[r] = "filter"
    /\ LET a == Admit(ref[r], err[r])
       IN  CASE a \in {"invalid payload", "ignored"} -> http500(r)
             [] a = "panic" ->
                   /\ Goto(r, "panicked")
                   /\ ClearLocals(r)
                   /\ UNCHANGED <<responses, mutex, repoVars, payloadVars,
                                  lastSync>>
             [] OTHER ->
                   /\ \E p \in Paths :
                         /\ path' = [path EXCEPT ![r] = p]
                         /\ IF StatPath(p) # "dir"
                            THEN Write(r, StatusNotFound, "404")
                                 /\ Goto(r, "return")
                            ELSE IF StatGit(p) # "dir"
                            THEN Write(r, StatusForbidden, "403")
                                 /\ Goto(r, "return")
                            ELSE Goto(r, "lock") /\ UNCHANGED responses
                   /\ UNCHANGED <<ref, err, remoteTarget, head, localBranch,
                                  deferred, mutex, repoVars, payloadVars,
                                  lastSync>>

\* lines 287-297: the error check, the master filter, and the first use of
\* r.URL.Path of a request that goes on.  ref.Ref() on the nil interface
\* panics: net/http recovers the panic and drops the connection without a
\* response.
Filter(r) ==
    /\ pc[r] = "filter"
    /\ LET a == Admit(ref[r], err[r])
       IN  CASE a \in {"invalid payload", "ignored"} -> http500(r)
             [] a = "panic" ->
                   /\ Goto(r, "panicked")
                   /\ ClearLocals(r)
                   /\ UNCHANGED <<responses, mutex, repoVars, payloadVars, lastSync>>
             [] OTHER ->
                   /\ \E p \in Paths : path' = [path EXCEPT ![r] = p]
                   /\ Goto(r, "lock")
                   /\ UNCHANGED <<ref, err, remoteTarget, head, localBranch,
                                  deferred, responses, mutex, repoVars,
                                  payloadVars, lastSync>>

\* variant of Lock that does not wait for the mutex to be free
Lock_NoBlock(r) ==
    /\ pc[r] = "lock"
    /\ mutex' = TRUE
    /\ deferred' = [deferred EXCEPT ![r] = TRUE]
    /\ Goto(r, "statPath")
    /\ UNCHANGED <<path, ref, err, remoteTarget, head, localBranch, responses,
                   repoVars, payloadVars, lastSync>>

\* variant of Lock that gives up with a 500 when the mutex is taken
Lock_TryLock(r) ==
    /\ pc[r] = "lock"
    /\ IF mutex
       THEN /\ Write(r, StatusInternalServerError, "500")
            /\ Goto(r, "return")
            /\ UNCHANGED <<mutex, deferred>>
       ELSE /\ mutex' = TRUE
            /\ deferred' = [deferred EXCEPT ![r] = TRUE]
            /\ Goto(r, "statPath")
            /\ UNCHANGED responses
    /\ UNCHANGED <<path, ref, err, remoteTarget, head, localBranch, repoVars,
                   payloadVars, lastSync>>

\* lines 298-299: mutex.Lock() blocks while the mutex is locked; the Unlock
\* is deferred right after
Lock(r) ==
    /\ pc[r] = "lock"
    /\ mutex = FALSE
    /\ mutex' = TRUE
    /\ deferred' = [deferred EXCEPT ![r] = TRUE]
    /\ Goto(r, "statPath")
    /\ UNCHANGED <<path, ref, err, remoteTarget, head, localBranch, responses,
                   repoVars, payloadVars, lastSync>>

\* variant of CheckPath without the f.IsDir() test of lines 308-312
CheckPath_ExistsOnly(r) ==
    /\ pc[r] = "statPath"
    /\ IF StatPath(path[r]) = "ENOENT"
       THEN Write(r, StatusNotFound, "404") /\ Goto(r, "return")
       ELSE Goto(r, "statGit") /\ UNCHANGED responses
    /\ UNCHANGED <<path, ref, err, remoteTarget, head, localBranch, deferred,
                   mutex, repoVars, payloadVars, lastSync>>

\* lines 301-312
CheckPath(r) ==
    /\ pc[r] = "statPath"
    /\ IF StatPath(path[r]) # "dir"
       THEN Write(r, StatusNotFound, "404") /\ Goto(r, "return")
       ELSE Goto(r, "statGit") /\ UNCHANGED responses
    /\ UNCHANGED <<path, ref, err, remoteTarget, head, localBranch, deferred,
                   mutex, repoVars, payloadVars, lastSync>>

\* lines 314-327
CheckGit(r) ==
    /\ pc[r] = "statGit"
    /\ IF StatGit(path[r]) # "dir"
       THEN Write(r, StatusForbidden, "403") /\ Goto(r, "return")
       ELSE Goto(r, "open") /\ UNCHANGED responses
    /\ UNCHANGED <<path, ref, err, remoteTarget, head, localBranch, deferred,
                   mutex, repoVars, payloadVars, lastSync>>

\* line 329: git.OpenRepositoryExtended(rdir)
OpenRepository(r) == Call(r, "open", "lookupRemote")

\* line 335: repo.LookupRemote("origin")
LookupRemote(r) == Call(r, "lookupRemote", "fetch")

\* line 341: remote.Fetch: on success the tracking reference holds whatever
\* commit origin's master is at (it may have been rewound by a forced push)
Fetch(r) ==
    /\ pc[r] = "fetch"
    /\ \/ /\ \E c \in Commits :
                /\ refs' = [refs EXCEPT ![path[r]][TrackingRef] = c]
                /\ lastSync' = IF c = refs[path[r]][TrackingRef]
                               THEN lastSync
                               ELSE Forget(path[r])
          /\ Goto(r, "lookupTracking")
          /\ UNCHANGED <<path, ref, err, remoteTarget, head, localBranch,
                         deferred, responses, mutex, HEAD, worktree,
                         repoState, payloadVars>>
       \/ http500(r)

\* lines 346-351: repo.LookupReference("refs/remotes/origin/master") and
\* remoteTarget := remoteRef.Target()
LookupTracking(r) ==
    /\ pc[r] = "lookupTracking"
    /\ \/ /\ remoteTarget' =
                [remoteTarget EXCEPT ![r] = refs[path[r]][TrackingRef]]
          /\ Goto(r, "annotatedCommit")
          /\ UNCHANGED <<path, ref, err, head, localBranch, deferred,
                         responses, mutex, repoVars, payloadVars, lastSync>>
       \/ http500(r)

\* line 353: repo.AnnotatedCommitFromRef(remoteRef)
AnnotatedCommitFromRef(r) == Call(r, "annotatedCommit", "merge")

\* tree of the merge of ours and theirs on a linear history
MergeTree(ours, theirs) == IF ours <= theirs THEN theirs ELSE ours

\* line 359: repo.Merge: on success the merge result is written to the
\* index and the working tree and the repository is left in the merge
\* state; no reference moves
Merge(r) ==
    /\ pc[r] = "merge"
    /\ \/ /\ worktree' = [worktree EXCEPT ![path[r]] =
                              MergeTree(HeadCommit(path[r]), remoteTarget[r])]
          /\ repoState' = [repoState EXCEPT ![path[r]] = "merge"]
          /\ Goto(r, "lookupCommit")
          /\ UNCHANGED <<path, ref, err, remoteTarget, head, localBranch,
                         deferred, responses, mutex, refs, HEAD, payloadVars, lastSync>>
       \/ http500(r)

\* line 365: repo.LookupCommit(remoteTarget)
LookupCommit(r) == Call(r, "lookupCommit", "tree")

\* line 371: remCommit.Tree()
Tree(r) == Call(r, "tree", "checkout")

\* variant of CheckoutTree that leaves the working tree as the merge made it
CheckoutTree_NoOp(r) ==
    /\ pc[r] = "checkout"
    /\ \/ /\ Goto(r, "head")
          /\ UNCHANGED <<path, ref, err, remoteTarget, head, localBranch,
                         deferred, responses, mutex, repoVars, payloadVars,
                         lastSync>>
       \/ http500(r)

\* line 377: repo.CheckoutTree(remTree, CheckoutForce)
CheckoutTree(r) ==
    /\ pc[r] = "checkout"
    /\ \/ /\ worktree' = [worktree EXCEPT ![path[r]] = remoteTarget[r]]
          /\ Goto(r, "head")
          /\ UNCHANGED <<path, ref, err, remoteTarget, head, localBranch,
                         deferred, responses, mutex, refs, HEAD, repoState,
                         payloadVars, lastSync>>
       \/ http500(r)

\* repo.Head() resolves HEAD: the branch reference HEAD is attached to, or
\* HEAD itself when it is detached
ResolveHead(p) ==
    IF HEAD[p].kind = "symbolic"
    THEN Reference(HEAD[p].name, refs[p][HEAD[p].name])
    ELSE Reference(HeadName, HEAD[p].oid)

\* line 382: head, err := repo.Head()
RepoHead(r) ==
    /\ pc[r] = "head"
    /\ \/ /\ head' = [head EXCEPT ![r] = ResolveHead(path[r])]
          /\ Goto(r, "lookupLocal")
          /\ UNCHANGED <<path, ref, err, remoteTarget, localBranch, deferred,
                         responses, mutex, repoVars, payloadVars, lastSync>>
       \/ http500(r)

\* line 388: localBranch, err := repo.LookupReference("refs/heads/master")
LookupLocal(r) ==
    /\ pc[r] = "lookupLocal"
    /\ \/ /\ localBranch' =
                [localBranch EXCEPT ![r] = Reference(Master, refs[path[r]][Master])]
          /\ Goto(r, "setLocal")
          /\ UNCHANGED <<path, ref, err, remoteTarget, head, deferred,
                         responses, mutex, repoVars, payloadVars, lastSync>>
       \/ http500(r)

\* current target of the direct reference `name` of repository p
Current(p, name) == IF name = HeadName THEN HEAD[p].oid ELSE refs[p][name]

\* reference.SetTarget(target): the write happens only if the reference
\* still has the target it was loaded with, and may fail for other reasons;
\* the caller discards the result either way
SetTarget(p, reference, target) ==
    \/ /\ Current(p, reference.name) = reference.target
       /\ IF reference.name = HeadName
          THEN HEAD' = [HEAD EXCEPT ![p] = Detached(target)] /\ UNCHANGED refs
          ELSE refs' = [refs EXCEPT ![p][reference.name] = target]
               /\ UNCHANGED HEAD
    \/ UNCHANGED <<refs, HEAD>>

\* line 394: localBranch.SetTarget(remoteTarget, nil, "")
SetLocalTarget(r) ==
    /\ pc[r] = "setLocal"
    /\ SetTarget(path[r], localBranch[r], remoteTarget[r])
    /\ Goto(r, "setHead")
    /\ UNCHANGED <<path, ref, err, remoteTarget, head, localBranch, deferred,
                   responses, mutex, worktree, repoState, payloadVars, lastSync>>

\* variant of SetHeadTarget after which the handler answers at once,
\* without the StateCleanup call
SetHeadTarget_SkipCleanup(r) ==
    /\ pc[r] = "setHead"
    /\ SetTarget(path[r], head[r], remoteTarget[r])
    /\ Goto(r, "respond")
    /\ UNCHANGED <<path, ref, err, remoteTarget, head, localBranch, deferred,
                   responses, mutex, worktree, repoState, payloadVars,
                   lastSync>>

\* line 395: head.SetTarget(remoteTarget, nil, "")
SetHeadTarget(r) ==
    /\ pc[r] = "setHead"
    /\ SetTarget(path[r], head[r], remoteTarget[r])
    /\ Goto(r, "cleanup")
    /\ UNCHANGED <<path, ref, err, remoteTarget, head, localBranch, deferred,
                   responses, mutex, worktree, repoState, payloadVars, lastSync>>

\* line 397: repo.StateCleanup(), result discarded
StateCleanup(r) ==
    /\ pc[r] = "cleanup"
    /\ \/ repoState' = [repoState EXCEPT ![path[r]] = "none"]
       \/ UNCHANGED repoState
    /\ Goto(r, "respond")
    /\ UNCHANGED <<path, ref, err, remoteTarget, head, localBranch, deferred,
                   responses, mutex, refs, HEAD, worktree, payloadVars, lastSync>>

\* variant of Respond that unlocks the mutex before it writes the response
Respond_UnlockFirst(r) ==
    /\ pc[r] = "respond"
    /\ mutex' = FALSE
    /\ deferred' = [deferred EXCEPT ![r] = FALSE]
    /\ Write(r, StatusOK, "ok")
    /\ Goto(r, "return")
    /\ lastSync' = Record(path[r])
    /\ UNCHANGED <<path, ref, err, remoteTarget, head, localBranch, repoVars,
                   payloadVars>>

\* lines 399-401: w.WriteHeader(200); w.Write([]byte("ok"))
Respond(r) ==
    /\ pc[r] = "respond"
    /\ Write(r, StatusOK, "ok")
    /\ Goto(r, "return")
    /\ lastSync' = Record(path[r])
    /\ UNCHANGED <<path, ref, err, remoteTarget, head, localBranch, deferred,
                   mutex, repoVars, payloadVars>>

\* variant of Return that leaves the mutex locked (no deferred Unlock)
Return_NoUnlock(r) ==
    /\ pc[r] = "return"
    /\ Goto(r, "done")
    /\ ClearLocals(r)
    /\ UNCHANGED <<responses, mutex, repoVars, payloadVars, lastSync>>

\* the handler returns: a deferred mutex.Unlock() (line 299) runs, the
\* locals are gone
Return(r) ==
    /\ pc[r] = "return"
    /\ mutex' = IF deferred[r] THEN FALSE ELSE mutex
    /\ Goto(r, "done")
    /\ ClearLocals(r)
    /\ UNCHANGED <<responses, repoVars, payloadVars, lastSync>>

\* a call into the git library panics: the deferred mutex.Unlock() of line
\* 299 runs while the panic unwinds the handler, net/http recovers the panic
\* and drops the connection without a response
Abort(r) ==
    /\ pc[r] \in {"open", "lookupRemote", "fetch", "lookupTracking",
                  "annotatedCommit", "merge", "lookupCommit", "tree",
                  "checkout", "head", "lookupLocal", "setLocal", "setHead",
                  "cleanup"}
    /\ mutex' = IF deferred[r] THEN FALSE ELSE mutex
    /\ Goto(r, "panicked")
    /\ ClearLocals(r)
    /\ lastSync' = Forget(path[r])
    /\ UNCHANGED <<responses, repoVars, payloadVars>>

Next ==
    \E r \in Reqs :
        \/ Receive(r)
        \/ Filter(r)
        \/ Lock(r)
        \/ CheckPath(r)
        \/ CheckGit(r)
        \/ OpenRepository(r)
        \/ LookupRemote(r)
        \/ Fetch(r)
        \/ LookupTracking(r)
        \/ AnnotatedCommitFromRef(r)
        \/ Merge(r)
        \/ LookupCommit(r)
        \/ Tree(r)
        \/ CheckoutTree(r)
        \/ RepoHead(r)
        \/ LookupLocal(r)
        \/ SetLocalTarget(r)
        \/ SetHeadTarget(r)
        \/ StateCleanup(r)
        \/ Respond(r)
        \/ Return(r)
        \/ Abort(r)

Spec == Init /\ [][Next]_vars

\* the steps of request r after it has the lock, and its filter step: each
\* is a call that returns
Progress(r) ==
    \/ Filter(r)
    \/ CheckPath(r)
    \/ CheckGit(r)
    \/ OpenRepository(r)
    \/ LookupRemote(r)
    \/ Fetch(r)
    \/ LookupTracking(r)
    \/ AnnotatedCommitFromRef(r)
    \/ Merge(r)
    \/ LookupCommit(r)
    \/ Tree(r)
    \/ CheckoutTree(r)
    \/ RepoHead(r)
    \/ LookupLocal(r)
    \/ SetLocalTarget(r)
    \/ SetHeadTarget(r)
    \/ StateCleanup(r)
    \/ Respond(r)
    \/ Return(r)

\* every call of a running handler returns, and a handler that finds the
\* mutex free again and again gets it in the end
SpecFair ==
    /\ Init
    /\ [][Next]_vars
    /\ \A r \in Reqs : WF_vars(Progress(r)) /\ SF_vars(Lock(r))

(* ----------------- any starting state of a repository ------------------ *)

\* "demo" starts with master at any commit and HEAD attached to master,
\* attached to another branch, or detached; its working tree holds the
\* commit HEAD resolves to.  "other" starts freshly cloned.
InitRepo ==
    /\ InitNoPayload
    /\ InitRequests
    /\ \E m \in Commits :
          refs = [p \in Repos |->
                     [n \in RefNames |-> IF p = "demo" /\ n = Master THEN m ELSE 1]]
    /\ \E h \in {Symbolic(Master), Symbolic(DevBranch)}
                    \cup {Detached(c) : c \in Commits} :
          HEAD = [p \in Repos |-> IF p = "demo" THEN h ELSE Symbolic(Master)]
    /\ worktree = [p \in Repos |-> HeadCommit(p)]
    /\ repoState = [p \in Repos |-> "none"]
    /\ lastSync = [p \in Repos |-> NotObserved]

SpecRepo == InitRepo /\ [][Next]_vars

(* ------------- successive synchronizations of one repository ---------- *)

\* as Init, with the synchronizations of "demo" followed in lastSync
InitIdem ==
    /\ InitNoPayload
    /\ InitRequests
    /\ refs = [p \in Repos |-> [n \in RefNames |-> 1]]
    /\ HEAD = [p \in Repos |-> Symbolic(Master)]
    /\ worktree = [p \in Repos |-> 1]
    /\ repoState = [p \in Repos |-> "none"]
    /\ lastSync = [p \in Repos |-> IF p = "demo" THEN NoSync ELSE NotObserved]

SpecIdem == InitIdem /\ [][Next]_vars

(* ---------------- the payload normalizer on every payload -------------- *)

InitPayload ==
    /\ payload \in Payloads
    /\ decoded = NoResult
    /\ verdict = "none"
    /\ InitRequests
    /\ refs = [p \in Repos |-> [n \in RefNames |-> 1]]
    /\ HEAD = [p \in Repos |-> Symbolic(Master)]
    /\ worktree = [p \in Repos |-> 1]
    /\ repoState = [p \in Repos |-> "none"]
    /\ lastSync = [p \in Repos |-> NotObserved]

\* line 280 applied to the payload
Decode ==
    /\ verdict = "none"
    /\ decoded' = unmarshalPayload(payload)
    /\ verdict' = "decoded"
    /\ UNCHANGED <<payload, reqVars, mutex, repoVars, lastSync>>

\* lines 287-295 applied to the result
Decide ==
    /\ verdict = "decoded"
    /\ verdict' = IF decoded.panic THEN "panic"
                  ELSE Admit(decoded.ref, decoded.err)
    /\ UNCHANGED <<payload, decoded, reqVars, mutex, repoVars, lastSync>>

NextPayload == Decode \/ Decide

SpecPayload == InitPayload /\ [][NextPayload]_vars

(* ------------------------------ properties ----------------------------- *)

\* labels between mutex.Lock() and the end of the handler's body
SyncLabels ==
    {"statPath", "statGit", "open", "lookupRemote", "fetch", "lookupTracking",
     "annotatedCommit", "merge", "lookupCommit", "tree", "checkout", "head",
     "lookupLocal", "setLocal", "setHead", "cleanup", "respond"}

\* labels at which the next statement is a call into the git library
RepoOpLabels == SyncLabels \ {"statPath", "statGit", "respond"}

\* request r has acquired the mutex and not yet released it
InCriticalSection(r) ==
    pc[r] \in SyncLabels \/ (pc[r] = "return" /\ deferred[r])

Finished(r) == pc[r] \in {"done", "panicked"}

OK200 == <<Response(StatusOK, "ok")>>

Error500 == <<Response(StatusInternalServerError, "500")>>

Error404 == <<Response(StatusNotFound, "404")>>

Error403 == <<Response(StatusForbidden, "403")>>

\* C1: at most one request at a time is between acquiring and releasing
\* the process-wide lock, whatever repositories the requests are for, and
\* the mutex is locked whenever a request is there.
C1_MutualExclusion ==
    LET inside == {r \in Reqs : InCriticalSection(r)}
    IN  /\ Cardinality(inside) <= 1
        /\ inside # {} => mutex

\* one request is merging in one repository while another waits at the
\* lock for a different repository
C1_Witness ==
    \E r1, r2 \in Reqs :
        /\ pc[r1] = "merge" /\ pc[r2] = "lock"
        /\ path[r2] \in Repos /\ path[r2] # path[r1]

\* C2: when the success response has been written, refs/heads/master and
\* HEAD both resolve to the commit refs/remotes/origin/master points to.
C2_SuccessMeansSynced ==
    \A r \in Reqs :
        (pc[r] = "return" /\ responses[r] = OK200) =>
            /\ refs[path[r]][Master] = refs[path[r]][TrackingRef]
            /\ HeadCommit(path[r]) = refs[path[r]][TrackingRef]

\* C3: no step changes the target of a local branch other than master.
C3_OnlyMasterMoves ==
    [][\A p \in Repos : refs'[p][DevBranch] = refs[p][DevBranch]]_vars

\* the payload is a JSON object whose refChanges member is absent, null or
\* a list of records with string (or absent) refId
IsRefChangeList(d) ==
    /\ d.kind = "object"
    /\ d.refChanges.kind \in {"absent", "null", "list"}
    /\ \A i \in 1..Len(d.refChanges.items) : d.refChanges.items[i] # WrongType

\* C4: for a payload of the ref-change-list shape unmarshalPayload returns
\* an event and no error, and the event reports refs/heads/master exactly
\* when some record's refId is refs/heads/master, "not master" otherwise.
C4_RefChangeList ==
    (verdict # "none" /\ IsRefChangeList(payload)) =>
        /\ decoded.err = NoErr
        /\ ~decoded.panic
        /\ decoded.ref # NilValue
        /\ Ref(decoded.ref) =
              IF \E i \in 1..Len(payload.refChanges.items) :
                     payload.refChanges.items[i] = Master
              THEN Master ELSE NotMaster

\* a decoded list whose second record, and not its first, is on master
C4_Witness ==
    /\ verdict # "none"
    /\ IsRefChangeList(payload)
    /\ Len(payload.refChanges.items) = 2
    /\ payload.refChanges.items[1] = "master"
    /\ payload.refChanges.items[2] = Master
    /\ Ref(decoded.ref) = Master

\* the payload is a JSON object with a string member ref and no refChanges
IsSingleRef(d) ==
    d.kind = "object" /\ d.refChanges.kind = "absent" /\ d.ref \in RefStrings

\* C5: for a payload of the single-ref shape the event reports the value of
\* its ref member, so that a delivery with ref refs/heads/master goes on to
\* the update.
C5_SingleRef ==
    (verdict \notin {"none", "decoded"} /\ IsSingleRef(payload)) =>
        /\ decoded.err = NoErr
        /\ ~decoded.panic
        /\ Ref(decoded.ref) = payload.ref
        /\ payload.ref = Master => verdict = "update"

\* the payload is valid JSON of neither shape: a value that is no object,
\* or an object without a refChanges list and without a string ref
IsNeitherSchema(d) ==
    \/ d.kind \in {"null", "scalar", "array"}
    \/ /\ d.kind = "object"
       /\ d.refChanges.kind \in {"absent", "badtype"}
       /\ d.ref \in {AbsentField, WrongType}

\* C6: for valid JSON of neither shape unmarshalPayload returns an error
\* and no event.
C6_NeitherSchemaIsMalformed ==
    (verdict # "none" /\ IsNeitherSchema(payload)) =>
        /\ ~decoded.panic
        /\ decoded.err # NoErr
        /\ decoded.ref = NilValue

\* every decoder of the list rejects the payload
AllReject(d) ==
    /\ d.kind # "ioerr"
    /\ \A i \in 1..Len(services) : jsonUnmarshal(d, services[i]).err # NoErr

\* C7: when every decoder rejects the payload, unmarshalPayload returns a
\* non-nil error and no event, and the handler answers 500 without calling
\* Ref().
C7_AllRejectIsError ==
    (verdict \notin {"none", "decoded"} /\ AllReject(payload)) =>
        /\ decoded.err # NoErr
        /\ decoded.ref = NilValue
        /\ verdict = "invalid payload"

\* C8: a finished request has written exactly one response, one of
\* 200 ok, 404 "404", 403 "403", 500 "500".
C8_ExactlyOneResponse ==
    \A r \in Reqs :
        Finished(r) => responses[r] \in {OK200, Error404, Error403, Error500}

\* C9: a request calls into the git library only if its path is a directory
\* with a .git directory; a path that is missing or no directory is
\* answered 404 "404", and a directory whose .git is missing or no
\* directory is answered 403 "403".
C9_PathGuard ==
    \A r \in Reqs :
        /\ pc[r] \in RepoOpLabels =>
              StatPath(path[r]) = "dir" /\ StatGit(path[r]) = "dir"
        /\ (pc[r] = "return" /\ deferred[r] /\ StatPath(path[r]) # "dir") =>
              responses[r] = Error404
        /\ (pc[r] = "return" /\ deferred[r] /\ StatPath(path[r]) = "dir"
              /\ StatGit(path[r]) # "dir") =>
              responses[r] = Error403

\* a plain file was requested and answered 404
C9_Witness ==
    \E r \in Reqs :
        pc[r] = "return" /\ path[r] = "afile" /\ responses[r] = Error404

\* the event of request r reports a ref other than refs/heads/master
ReportsOtherRef(r) ==
    err[r] = NoErr /\ ref[r] # NilValue /\ Ref(ref[r]) # Master

\* C10: a request whose event is not on master is answered 500 in one step
\* that needs no lock and changes neither the mutex nor any repository; it
\* is about to return without a deferred Unlock and without having read its
\* path.
C10_NotMasterRejected ==
    /\ [][\A r \in Reqs :
            (pc[r] = "filter" /\ ReportsOtherRef(r) /\ pc'[r] # "filter") =>
                /\ pc'[r] = "return"
                /\ responses'[r] = Error500
                /\ mutex' = mutex
                /\ repoVars' = repoVars]_vars
    /\ [](\A r \in Reqs :
            /\ (pc[r] = "filter" /\ ReportsOtherRef(r)) => ENABLED Filter(r)
            /\ (pc[r] = "return" /\ ReportsOtherRef(r)) =>
                  /\ responses[r] = Error500
                  /\ ~deferred[r]
                  /\ path[r] = NoPath)

\* a request not on master has been answered while another request is in
\* the middle of its synchronization
C10_Witness ==
    \E r1, r2 \in Reqs :
        /\ pc[r1] = "merge" /\ mutex
        /\ pc[r2] = "return" /\ ReportsOtherRef(r2)
        /\ responses[r2] = Error500

\* C11: the mutex is locked only while some request is between Lock and
\* its return, so once a request that took the lock has finished (with any
\* response, or aborted by a panic) the mutex is free again; and as long as
\* some request has not finished, some step is possible (no deadlock).
C11_LockReleased ==
    /\ mutex => \E r \in Reqs : InCriticalSection(r)
    /\ \A r \in Reqs : Finished(r) => ~deferred[r]
    /\ (\E r \in Reqs : ~Finished(r)) => ENABLED Next

\* a request answered 404 (so it took the lock) has finished, and a later
\* request is fetching under the lock
C11_Witness ==
    \E r1, r2 \in Reqs :
        /\ pc[r1] = "done" /\ responses[r1] = Error404
        /\ pc[r2] = "fetch" /\ mutex

\* C12: a request leaves the lock statement only by acquiring the mutex,
\* with no response written, and (every call returning, the mutex granted
\* fairly) a request waiting at the lock eventually acquires it and stands
\* at its own path validation.
C12_WaiterProceeds ==
    /\ [][\A r \in Reqs :
            (pc[r] = "lock" /\ pc'[r] # "lock") =>
                /\ pc'[r] = "statPath"
                /\ responses'[r] = <<>>
                /\ mutex' /\ deferred'[r]]_vars
    /\ \A r \in Reqs : (pc[r] = "lock") ~> (pc[r] = "statPath")

\* one request has completed its synchronization and another one, which
\* came through the lock after it, is fetching
C12_Witness ==
    \E r1, r2 \in Reqs :
        /\ pc[r1] = "done" /\ responses[r1] = OK200
        /\ pc[r2] = "fetch"

\* C13: a forced update of refs/heads/master or of HEAD that does not take
\* effect ends the request with 500 "500": the request does not go on to
\* the cleanup and the success response.
C13_RefUpdateFailureReported ==
    [][\A r \in Reqs :
          /\ (pc[r] = "setLocal" /\ pc'[r] \notin {"setLocal", "panicked"}
                /\ refs'[path[r]][Master] # remoteTarget[r]) =>
                (pc'[r] = "return" /\ responses'[r] = Error500)
          /\ (pc[r] = "setHead" /\ pc'[r] \notin {"setHead", "panicked"}
                /\ HeadCommit(path[r])' # remoteTarget[r]) =>
                (pc'[r] = "return" /\ responses'[r] = Error500)]_vars

\* C14: when a synchronization of a repository ends in 200 "ok" right after
\* another one that ended in 200 "ok", and no fetch in between brought a
\* different commit, master and HEAD resolve to the same commits as after
\* the first.
C14_Idempotent ==
    [][\A r \in Reqs :
          (pc[r] = "respond" /\ pc'[r] = "return"
                /\ lastSync[path[r]].seen = "ok") =>
              /\ refs'[path[r]][Master] = lastSync[path[r]].master
              /\ HeadCommit(path[r])' = lastSync[path[r]].head]_vars

\* the calls into the git library in the order of lines 329-397, and the
\* statement after the last
StepOrder ==
    <<"open", "lookupRemote", "fetch", "lookupTracking", "annotatedCommit",
      "merge", "lookupCommit", "tree", "checkout", "head", "lookupLocal",
      "setLocal", "setHead", "cleanup", "respond">>

\* the statement that follows step `label` when the step succeeds
NextStep(label) ==
    LET i == CHOOSE k \in 1..(Len(StepOrder) - 1) : StepOrder[k] = label
    IN  StepOrder[i + 1]

\* the step request r is at has had its effect in the next state
StepDone(r) ==
    CASE pc[r] = "setLocal" -> refs'[path[r]][Master] = remoteTarget[r]
      [] pc[r] = "setHead" -> HeadCommit(path[r])' = remoteTarget[r]
      [] pc[r] = "cleanup" -> repoState'[path[r]] = "none"
      [] OTHER -> TRUE

\* C15: the steps run in the fixed order, each once; a step that succeeded
\* is followed by the next one, and a step that failed ends the request
\* with a 500 and nothing after it.
C15_StepOrder ==
    [][\A r \in Reqs :
          (pc[r] \in RepoOpLabels /\ pc'[r] \notin {pc[r], "panicked"}) =>
              \/ pc'[r] = NextStep(pc[r]) /\ StepDone(r)
              \/ pc'[r] = "return" /\ responses'[r] = Error500]_vars

\* C16 as stated: a request that holds the lock has not written its
\* response; the response is written only after the lock was released.
C16_ReleasedBeforeResponse ==
    \A r \in Reqs : InCriticalSection(r) => responses[r] = <<>>

\* C16, amended: a request that acquired the lock writes its response
\* (success or failure) while it still holds the lock, and the lock is
\* released afterwards, by the deferred Unlock when the handler returns.
C16_ResponseUnderLock ==
    [][\A r \in Reqs :
          /\ (pc[r] \in SyncLabels /\ responses'[r] # responses[r]) =>
                /\ mutex /\ deferred[r]
                /\ mutex' /\ deferred'[r]
                /\ pc'[r] = "return"
          /\ (pc[r] = "return" /\ deferred[r] /\ pc'[r] # "return") =>
                /\ responses[r] # <<>>
                /\ responses'[r] = responses[r]
                /\ pc'[r] = "done"
                /\ ~mutex' /\ ~deferred'[r]]_vars

\* the success response is written and the request still holds the lock
C16_Witness ==
    \E r \in Reqs :
        pc[r] = "return" /\ deferred[r] /\ mutex /\ responses[r] = OK200

\* the path of request r passes the path guard
PathValid(r) == StatPath(path[r]) = "dir" /\ StatGit(path[r]) = "dir"

\* C17 as stated: only a request whose path passed the guard waits for the
\* lock or holds it.
C17_GuardBeforeLock ==
    \A r \in Reqs : (pc[r] = "lock" \/ deferred[r]) => PathValid(r)

\* C17, amended: the lock is acquired before the path is validated.  A
\* request validates its path, and is answered 404 or 403, while it holds
\* the lock; one whose path will fail the guard still waits at the lock,
\* unanswered, as long as another request holds it.
C17_GuardUnderLock ==
    \A r \in Reqs :
        /\ pc[r] \in {"statPath", "statGit"} => mutex /\ deferred[r]
        /\ (pc[r] = "return" /\ responses[r] \in {Error404, Error403}) =>
              mutex /\ deferred[r]
        /\ (pc[r] = "lock" /\ mutex) =>
              /\ responses[r] = <<>>
              /\ ~ENABLED (Lock(r) \/ Progress(r))
        /\ (pc[r] = "lock" /\ ~mutex) => ENABLED Lock(r)

\* a request for a directory without .git waits at the lock while another
\* request, answered 403, still holds it
C17_Witness ==
    \E r1, r2 \in Reqs :
        /\ pc[r1] = "return" /\ responses[r1] = Error403 /\ deferred[r1]
        /\ pc[r2] = "lock" /\ path[r2] = "norepo"

C19_NoMergeStateLeft ==
    ~mutex => \A p \in Repos : repoState[p] = "none"

\* labels of a request between its successful merge and its cleanup call
AfterMergeLabels ==
    {"lookupCommit", "tree", "checkout", "head", "lookupLocal", "setLocal",
     "setHead", "cleanup"}

\* C19, amended: the state cleanup is called on the success path only,
\* after both ref writes and right before the success response.  A request
\* that fails after its merge returns 500 without a cleanup and leaves the
\* repository in the merge state; a repository leaves the merge state only
\* by the cleanup call of a later successful request.
C19_CleanupOnSuccessOnly ==
    /\ [][\A r \in Reqs :
            /\ (pc'[r] = "respond" /\ pc[r] # "respond") => pc[r] = "cleanup"
            /\ (pc[r] \in AfterMergeLabels /\ pc'[r] = "return") =>
                  /\ responses'[r] = Error500
                  /\ repoState'[path[r]] = "merge"]_vars
    /\ [][\A p \in Repos :
            (repoState[p] = "merge" /\ repoState'[p] = "none") =>
                \E r \in Reqs :
                    pc[r] = "cleanup" /\ path[r] = p /\ pc'[r] = "respond"]_vars
    /\ [](\A r \in Reqs :
            pc[r] \in AfterMergeLabels => repoState[path[r]] = "merge")

\* the only request so far failed after its merge and is about to return:
\* its repository is in the merge state
C19_Witness ==
    \E r1, r2 \in Reqs :
        /\ pc[r1] = "return" /\ responses[r1] = Error500
        /\ path[r1] \in Repos /\ repoState[path[r1]] = "merge"
        /\ pc[r2] = "start"

\* C20 as stated: whenever the lock is free, the working tree of every
\* repository holds the commit refs/heads/master points to.
C20_WorktreeMatchesMaster ==
    ~mutex => \A p \in Repos : worktree[p] = refs[p][Master]

\* labels of a request after its forced checkout succeeded
AfterCheckoutLabels ==
    {"head", "lookupLocal", "setLocal", "setHead", "cleanup", "respond"}

\* C20, amended: from the moment the forced checkout of a request has
\* succeeded, the working tree holds the commit fetched from origin's
\* master, and still does when the request ends, by success or by the
\* failure of a later step; it matches refs/heads/master only if the write
\* of that reference took effect.
C20_WorktreeIsFetchedCommit ==
    /\ [][\A r \in Reqs :
            pc[r] \in AfterCheckoutLabels =>
                /\ worktree'[path[r]] = remoteTarget[r]
                /\ (refs'[path[r]][Master] # refs[path[r]][Master]) =>
                      /\ pc[r] = "setLocal" \/ pc[r] = "setHead"
                      /\ refs'[path[r]][Master] = worktree'[path[r]]]_vars
    /\ [](\A r \in Reqs :
            /\ pc[r] \in AfterCheckoutLabels =>
                  worktree[path[r]] = remoteTarget[r]
            /\ (pc[r] = "return" /\ responses[r] = OK200) =>
                  /\ worktree[path[r]] = remoteTarget[r]
                  /\ worktree[path[r]] = refs[path[r]][TrackingRef])

\* origin's master was rewound to commit 1 after local master had reached
\* commit 2: the forced checkout has put commit 1 in the working tree
C20_Witness ==
    \E r \in Reqs :
        /\ pc[r] = "head" /\ remoteTarget[r] = 1
        /\ refs[path[r]][Master] = 2
        /\ worktree[path[r]] = 1

====
